---- MODULE Spec2Model ----
(***************************************************************************)
(* The two bounded FIFO rings of the repository:                           *)
(*   - the index-based ring of include/linux/core_ring.h (struct           *)
(*     core_ring: producer/consumer indices, slot validity decides         *)
(*     full/empty through the caller's function table);                    *)
(*   - the packet ring of net/vhost-user.c and linux/skb_ring.h (struct    *)
(*     skb_ring: head/tail indices, CIRC_CNT/CIRC_SPACE decide             *)
(*     full/empty).                                                        *)
(* Spec runs whole calls (each under its side's lock) one after another;   *)
(* StepSpec runs one producer-side and one consumer-side caller statement  *)
(* by statement; SideSpec adds the batched consume to StepSpec; PurgeSpec  *)
(* runs skb_ring_queue, skb_ring_dequeue and skb_ring_purge callers        *)
(* statement by statement.                                                 *)
(***************************************************************************)
EXTENDS Integers, Sequences, FiniteSets, TLC

\* ------------------------------------------------------------- bounds
MaxSize == 4          \* ring sizes 0..MaxSize
MaxProduced == 6      \* elements a behaviour offers at most
MaxBatch == 3         \* largest n handed to consume_batched
MaxEntrySize == 2     \* entry_size values 1..MaxEntrySize
MaxRep == 3           \* cap of the repetition counter
MaxSkbSize == 4       \* packet ring sizes 1..MaxSkbSize
WordBits == 8         \* bits of an unsigned long kept (sizes stay below 2^WordBits)
MaxFreed == 3         \* destructor / kfree_skb calls a behaviour makes at most
MaxQueues == 3        \* queues of a vhost-user backend 1..MaxQueues
MaxInstances == 9     \* vhost_net instances a behaviour creates at most

\* ---------------------------------------------------------- constants
NULL == 0
ENOSPC == 28
EFAULT == 14
VLAN_HLEN == 4

VARIABLES
  variant,    \* "core": the behaviour is about struct core_ring; "skb": struct skb_ring
  ring,       \* struct core_ring
  slots,      \* the slot storage the function table addresses
  skb,        \* struct skb_ring, descs included
  produced,   \* elements accepted so far, in order
  consumed,   \* elements returned so far, in order
  freed,      \* elements handed to the destructor / kfree_skb so far, in order
  last,       \* the last completed call: op, arg, ret, and the state it started in
  rep,        \* how many times in a row that same call has now been made
  peeked,     \* the peeks since the last consume: their results, how many
  peekedHead, \* the peeks since the head element last changed: the same
  scen,       \* calls of the capacity-4 scenario completed so far, -1 once off it
  pc,         \* StepSpec: the statement each caller is at
  loc,        \* StepSpec: each caller's arguments and local variables
  vu          \* "vhost": struct VhostUserState and what became of its vhost_net instances

vars == <<variant, ring, slots, skb, produced, consumed, freed, last, rep, peeked,
          peekedHead, scen, pc, loc, vu>>

observers == <<last, rep, peeked, peekedHead, scen>>
callers == <<pc, loc>>

Min(a, b) == IF a < b THEN a ELSE b
Max(a, b) == IF a > b THEN a ELSE b

\* ------------------------------------------- function table (caller's)
\* A slot holds a reference or NULL; a ring of size 0 has no slot.
seek_fn(s, i) == s[i]
valid_fn(s, i) == i \in DOMAIN s /\ s[i] # NULL
zero_fn(s, i) == [s EXCEPT ![i] = NULL]
copy_fn(s, i, ptr) == [s EXCEPT ![i] = ptr]

\* a spinlock holds its owner, or Unlocked
Unlocked == "unlocked"

\* ------------------------------------------------- struct core_ring
core_ring_init(size, entry_size) ==
  [producer |-> 0, consumer |-> 0, size |-> size, entry_size |-> entry_size,
   producer_lock |-> Unlocked, consumer_lock |-> Unlocked]

\* what core_ring_init returns: 0, whatever the size
core_ring_init_returns(size) == 0

EmptySlots(size) == [i \in 0 .. size - 1 |-> NULL]

\* faulty variant of __core_ring_full: the consumer's slot is tested
__core_ring_full_consumer(r, s) == valid_fn(s, r.consumer)

__core_ring_full(r, s) == valid_fn(s, r.producer)

__core_ring_empty(r, s) == ~valid_fn(s, r.consumer)

\* faulty variants of __core_ring_produce: the validity test dropped; the
\* wrap test off by one
__core_ring_produce_overwrite(r, s, ptr) ==
  IF r.size = 0
  THEN [ret |-> -ENOSPC, r |-> r, s |-> s]
  ELSE LET s1 == copy_fn(s, r.producer, ptr)
           p1 == r.producer + 1
           p2 == IF p1 >= r.size THEN 0 ELSE p1
       IN [ret |-> 0, r |-> [r EXCEPT !.producer = p2], s |-> s1]

__core_ring_produce_latewrap(r, s, ptr) ==
  IF r.size = 0 \/ valid_fn(s, r.producer)
  THEN [ret |-> -ENOSPC, r |-> r, s |-> s]
  ELSE LET s1 == copy_fn(s, r.producer, ptr)
           p1 == r.producer + 1
           p2 == IF p1 > r.size THEN 0 ELSE p1
       IN [ret |-> 0, r |-> [r EXCEPT !.producer = p2], s |-> s1]

__core_ring_produce(r, s, ptr) ==
  IF r.size = 0 \/ valid_fn(s, r.producer)
  THEN [ret |-> -ENOSPC, r |-> r, s |-> s]
  ELSE LET s1 == copy_fn(s, r.producer, ptr)
           p1 == r.producer + 1
           p2 == IF p1 >= r.size THEN 0 ELSE p1
       IN [ret |-> 0, r |-> [r EXCEPT !.producer = p2], s |-> s1]

\* faulty variant of __core_ring_peek: looks at the producer's slot
__core_ring_peek_producer(r, s) ==
  IF r.size # 0 /\ ~__core_ring_empty(r, s)
  THEN seek_fn(s, r.producer)
  ELSE NULL

__core_ring_peek(r, s) ==
  IF r.size # 0 /\ ~__core_ring_empty(r, s)
  THEN seek_fn(s, r.consumer)
  ELSE NULL

\* faulty variants of __core_ring_discard_one: the slot is not zeroed; the
\* consumer index is not advanced
__core_ring_discard_one_nozero(r, s) ==
  LET c1 == r.consumer + 1
      c2 == IF c1 >= r.size THEN 0 ELSE c1
  IN [r |-> [r EXCEPT !.consumer = c2], s |-> s]

__core_ring_discard_one_noadvance(r, s) ==
  [r |-> r, s |-> zero_fn(s, r.consumer)]

__core_ring_discard_one(r, s) ==
  LET s1 == zero_fn(s, r.consumer)
      c1 == r.consumer + 1
      c2 == IF c1 >= r.size THEN 0 ELSE c1
  IN [r |-> [r EXCEPT !.consumer = c2], s |-> s1]

\* faulty variant of __core_ring_consume: tests the size, not the slot
__core_ring_consume_unchecked(r, s) ==
  IF r.size # 0
  THEN LET e == seek_fn(s, r.consumer)
           d == __core_ring_discard_one(r, s)
       IN [ret |-> e, r |-> d.r, s |-> d.s]
  ELSE [ret |-> NULL, r |-> r, s |-> s]

\* ret is what the call copied to the caller's buffer, NULL when it copied nothing
__core_ring_consume(r, s) ==
  IF valid_fn(s, r.consumer)
  THEN LET e == seek_fn(s, r.consumer)
           d == __core_ring_discard_one(r, s)
       IN [ret |-> e, r |-> d.r, s |-> d.s]
  ELSE [ret |-> NULL, r |-> r, s |-> s]

\* The output array: offset -> what was copied there (NULL: nothing yet).
EmptyArray == [o \in 0 .. MaxBatch * MaxEntrySize - 1 |-> NULL]

RECURSIVE batched_loop(_, _, _, _, _, _)
batched_loop(r, s, array, off, i, n) ==
  IF i < n
  THEN LET c == __core_ring_consume(r, s)
       IN IF c.ret = NULL
          THEN [ret |-> i, r |-> r, s |-> s, array |-> array]
          ELSE batched_loop(c.r, c.s, [array EXCEPT ![off] = c.ret],
                            off + r.entry_size, i + 1, n)
  ELSE [ret |-> i, r |-> r, s |-> s, array |-> array]

\* faulty variant of __core_ring_consume_batched: array advances by one, not
\* by entry_size
RECURSIVE batched_loop_packed(_, _, _, _, _, _)
batched_loop_packed(r, s, array, off, i, n) ==
  IF i < n
  THEN LET c == __core_ring_consume(r, s)
       IN IF c.ret = NULL
          THEN [ret |-> i, r |-> r, s |-> s, array |-> array]
          ELSE batched_loop_packed(c.r, c.s, [array EXCEPT ![off] = c.ret],
                                   off + 1, i + 1, n)
  ELSE [ret |-> i, r |-> r, s |-> s, array |-> array]

__core_ring_consume_batched_packed(r, s, array, n) ==
  batched_loop_packed(r, s, array, 0, 0, n)

__core_ring_consume_batched(r, s, array, n) == batched_loop(r, s, array, 0, 0, n)

\* core_ring_cleanup: while ((ptr = core_ring_consume(r))) r->destroy(ptr);
\* destroyed lists the elements handed to the destructor, in order
RECURSIVE cleanup_loop(_, _, _)
cleanup_loop(r, s, destroyed) ==
  LET c == __core_ring_consume(r, s)
  IN IF c.ret = NULL
     THEN [r |-> r, s |-> s, destroyed |-> destroyed]
     ELSE cleanup_loop(c.r, c.s, Append(destroyed, c.ret))

\* faulty variant of core_ring_cleanup: one element is consumed, not all
core_ring_cleanup_once(r, s, destroy) ==
  LET c == __core_ring_consume(r, s)
  IN IF destroy /\ c.ret # NULL
     THEN [r |-> c.r, s |-> c.s, destroyed |-> <<c.ret>>]
     ELSE [r |-> r, s |-> s, destroyed |-> <<>>]

\* destroy: whether the ring's user has a destructor (ring_destroy_fn_t)
core_ring_cleanup(r, s, destroy) ==
  IF destroy
  THEN cleanup_loop(r, s, <<>>)
  ELSE [r |-> r, s |-> s, destroyed |-> <<>>]

\* The function a caller hands to PTR_RING_PEEK_CALL: here, tag the reference.
PeekFn(ptr) == IF ptr = NULL THEN 0 ELSE 100 + ptr

__PTR_RING_PEEK_CALL(r, s) == PeekFn(__core_ring_peek(r, s))

\* -------------------------------------------------- struct skb_ring
RECURSIVE BitAnd(_, _)
BitAnd(a, b) ==
  IF a = 0 \/ b = 0 THEN 0
  ELSE (a % 2) * (b % 2) + 2 * BitAnd(a \div 2, b \div 2)

\* unsigned long arithmetic, on the low WordBits bits
ULong(x) == x % (2 ^ WordBits)

\* linux/circ_buf.h
CIRC_CNT(head, tail, size) == BitAnd(ULong(head - tail), ULong(size - 1))
CIRC_SPACE(head, tail, size) == CIRC_CNT(tail, head + 1, size)

\* struct sk_buff: a payload reference p stands for one packet; its length and
\* whether it carries a VLAN tag are read off the reference.
skb_len(p) == 60 + (p \div 2)
skb_vlan_tag_present(p) == p % 2 = 1

\* kmalloc does not clear the descriptors
Uninit == [skb |-> -1, len |-> -1]

skb_ring_init(size) ==
  [head |-> 0, tail |-> 0, size |-> size, rlock |-> Unlocked, wlock |-> Unlocked,
   descs |-> [i \in 0 .. size - 1 |-> Uninit]]

\* what skb_ring_init returns once kmalloc has given it the descriptors: 0,
\* whatever the size
skb_ring_init_returns(size) == 0

\* faulty variant of skb_ring_queue: the space test always passes
skb_ring_queue_nospace(k, p) ==
  IF CIRC_SPACE(k.head, k.tail, k.size) >= 0
  THEN LET len0 == skb_len(p)
           len1 == IF skb_vlan_tag_present(p) THEN len0 + VLAN_HLEN ELSE len0
       IN [ret |-> 0,
           k |-> [k EXCEPT !.descs[k.head] = [skb |-> p, len |-> len1],
                           !.head = BitAnd(ULong(k.head + 1), ULong(k.size - 1))]]
  ELSE [ret |-> -EFAULT, k |-> k]

skb_ring_queue(k, p) ==
  IF CIRC_SPACE(k.head, k.tail, k.size) >= 1
  THEN LET len0 == skb_len(p)
           len1 == IF skb_vlan_tag_present(p) THEN len0 + VLAN_HLEN ELSE len0
       IN [ret |-> 0,
           k |-> [k EXCEPT !.descs[k.head] = [skb |-> p, len |-> len1],
                           !.head = BitAnd(ULong(k.head + 1), ULong(k.size - 1))]]
  ELSE [ret |-> -EFAULT, k |-> k]

skb_ring_dequeue(k) ==
  IF CIRC_CNT(k.head, k.tail, k.size) >= 1
  THEN [ret |-> k.descs[k.tail].skb,
        k |-> [k EXCEPT !.tail = BitAnd(ULong(k.tail + 1), ULong(k.size - 1))]]
  ELSE [ret |-> NULL, k |-> k]

skb_ring_empty(k) == k.head = k.tail

\* faulty variant of skb_ring_peek: the length at the head index
skb_ring_peek_head(k) ==
  IF CIRC_CNT(k.head, k.tail, k.size) >= 1
  THEN k.descs[k.head].len
  ELSE 0

\* lock-free; here with no other call in flight
skb_ring_peek(k) ==
  IF CIRC_CNT(k.head, k.tail, k.size) >= 1
  THEN k.descs[k.tail].len
  ELSE 0

skb_ring_queue_len(k) == CIRC_CNT(k.head, k.tail, k.size)

\* ---------------------------------------------------------- observers

\* The capacity-4 scenario: produce A..D, produce E, consume, produce E,
\* consume, consume, peek, consume, consume, consume.
Script == <<"produce", "produce", "produce", "produce", "produce", "consume",
            "produce", "consume", "consume", "peek", "consume", "consume",
            "consume">>
NextScen(op) ==
  IF variant = "core" /\ ring.size = 4 /\ scen >= 0
     /\ scen < Len(Script) /\ Script[scen + 1] = op
  THEN scen + 1
  ELSE -1

NoPeeks == [vals |-> {}, n |-> 0]
AddPeek(pk, ret) == [vals |-> pk.vals \cup {ret}, n |-> Min(pk.n + 1, MaxRep)]

Observe(op, arg, ret, out) ==
  /\ last' = [op |-> op, arg |-> arg, ret |-> ret, r |-> ring, s |-> slots,
              k |-> skb, out |-> out, np |-> Len(produced), nc |-> Len(consumed),
              pk |-> peeked, pkh |-> peekedHead]
  /\ rep' = IF last.op = op /\ last.arg = arg THEN Min(rep + 1, MaxRep) ELSE 1
  /\ scen' = NextScen(op)

\* The element the caller offers next: its elements are e1, e2, ... in order,
\* and a rejected element is offered again.
NextElem == Len(produced) + 1

\* One caller on the producer side and one on the consumer side; one caller of
\* skb_ring_purge; one caller of the lock-free skb_ring_peek.
Producers == {"p1"}
Consumers == {"c1"}
Purgers == {"u1"}
Peekers == {"k1"}
Procs == Producers \cup Consumers \cup Purgers \cup Peekers
NoLocals == [ptr |-> NULL, ret |-> 0, head |-> 0, tail |-> 0, n |-> 0, i |-> 0]

\* ------------------------------------------------- the vhost-user backend
\* s = g_malloc0(...); s->queues = queues: running false, every peers[i].vhost_net
\* NULL. created counts the vhost_net instances vhost_net_init has returned,
\* cleanups[v] the calls of vhost_net_cleanup on instance v, next_nc the queues
\* whose vhost_user_cleanup has run, freed that free(s) has run, uaf that s was
\* read or written after it, exited that the process is gone.
net_init_vhost_user(queues) ==
  [queues |-> queues, running |-> FALSE,
   peers |-> [i \in 0 .. queues - 1 |-> NULL],
   created |-> 0, cleanups |-> <<>>, next_nc |-> 0,
   freed |-> FALSE, uaf |-> FALSE, exited |-> FALSE]

\* ------------------------------------------------------------- Init
InitRings ==
  \/ /\ variant = "core"
     /\ \E size \in 0 .. MaxSize, es \in 1 .. MaxEntrySize :
          ring = core_ring_init(size, es)
     /\ skb = skb_ring_init(1)
     /\ vu = net_init_vhost_user(1)
  \/ /\ variant = "skb"
     /\ ring = core_ring_init(0, 1)
     /\ \E size \in 1 .. MaxSkbSize : skb = skb_ring_init(size)
     /\ vu = net_init_vhost_user(1)
  \/ /\ variant = "vhost"
     /\ ring = core_ring_init(0, 1)
     /\ skb = skb_ring_init(1)
     /\ \E queues \in 1 .. MaxQueues : vu = net_init_vhost_user(queues)

Init ==
  /\ InitRings
  /\ slots = EmptySlots(ring.size)
  /\ produced = <<>>
  /\ consumed = <<>>
  /\ freed = <<>>
  /\ last = [op |-> "init",
             arg |-> IF variant = "core" THEN ring.size ELSE skb.size,
             ret |-> IF variant = "core" THEN core_ring_init_returns(ring.size)
                     ELSE skb_ring_init_returns(skb.size),
             r |-> ring, s |-> slots,
             k |-> skb, out |-> EmptyArray, np |-> 0, nc |-> 0,
             pk |-> NoPeeks, pkh |-> NoPeeks]
  /\ rep = 0
  /\ peeked = NoPeeks
  /\ peekedHead = NoPeeks
  /\ scen = 0
  /\ pc = [p \in Procs |-> "idle"]
  /\ loc = [p \in Procs |-> NoLocals]

\* ------------------------------------------ whole calls, index-based ring
\* core_ring_produce: spin_lock(producer_lock); __core_ring_produce; spin_unlock
core_ring_produce ==
  /\ variant = "core"
  /\ ring.producer_lock = Unlocked
  /\ Len(produced) < MaxProduced
  /\ LET res == __core_ring_produce(ring, slots, NextElem)
     IN /\ ring' = res.r
        /\ slots' = res.s
        /\ produced' = IF res.ret = 0 THEN Append(produced, NextElem) ELSE produced
        /\ peekedHead' = IF res.ret = 0 /\ __core_ring_empty(ring, slots)
                         THEN NoPeeks ELSE peekedHead
        /\ Observe("produce", NextElem, res.ret, EmptyArray)
  /\ UNCHANGED <<variant, vu, freed, skb, consumed, peeked, callers>>

\* core_ring_consume: spin_lock(consumer_lock); __core_ring_consume; spin_unlock
core_ring_consume ==
  /\ variant = "core"
  /\ ring.consumer_lock = Unlocked
  /\ LET res == __core_ring_consume(ring, slots)
     IN /\ ring' = res.r
        /\ slots' = res.s
        /\ consumed' = IF res.ret # NULL THEN Append(consumed, res.ret) ELSE consumed
        /\ Observe("consume", 0, res.ret, EmptyArray)
  /\ peeked' = NoPeeks
  /\ peekedHead' = NoPeeks
  /\ UNCHANGED <<variant, vu, freed, skb, produced, callers>>

core_ring_consume_batched ==
  /\ variant = "core"
  /\ ring.consumer_lock = Unlocked
  /\ \E n \in -1 .. MaxBatch :
       LET res == __core_ring_consume_batched(ring, slots, EmptyArray, n)
       IN /\ ring' = res.r
          /\ slots' = res.s
          /\ consumed' = consumed \o
               [i \in 1 .. res.ret |-> res.array[(i - 1) * ring.entry_size]]
          /\ Observe("consume_batched", n, res.ret, res.array)
  /\ peeked' = NoPeeks
  /\ peekedHead' = NoPeeks
  /\ UNCHANGED <<variant, vu, freed, skb, produced, callers>>

\* __core_ring_peek, by a caller holding consumer_lock
core_ring_peek ==
  /\ variant = "core"
  /\ ring.consumer_lock = Unlocked
  /\ LET ret == __core_ring_peek(ring, slots)
     IN /\ peeked' = AddPeek(peeked, ret)
        /\ peekedHead' = AddPeek(peekedHead, ret)
        /\ Observe("peek", 0, ret, EmptyArray)
  /\ UNCHANGED <<variant, vu, freed, ring, slots, skb, produced, consumed, callers>>

\* PTR_RING_PEEK_CALL(r, f): spin_lock(consumer_lock); f(__core_ring_peek(r)); spin_unlock
PTR_RING_PEEK_CALL ==
  /\ variant = "core"
  /\ ring.consumer_lock = Unlocked
  /\ peeked' = AddPeek(peeked, __core_ring_peek(ring, slots))
  /\ peekedHead' = AddPeek(peekedHead, __core_ring_peek(ring, slots))
  /\ Observe("peek_call", 0, __PTR_RING_PEEK_CALL(ring, slots), EmptyArray)
  /\ UNCHANGED <<variant, vu, freed, ring, slots, skb, produced, consumed, callers>>

\* core_ring_cleanup(r), at teardown: once per ring that held anything
call_core_ring_cleanup ==
  /\ variant = "core"
  /\ ring.consumer_lock = Unlocked
  /\ freed = <<>>
  /\ \E destroy \in BOOLEAN :
       LET res == core_ring_cleanup(ring, slots, destroy)
       IN /\ ring' = res.r
          /\ slots' = res.s
          /\ consumed' = consumed \o res.destroyed
          /\ freed' = res.destroyed
          /\ Observe("cleanup", IF destroy THEN 1 ELSE 0, Len(res.destroyed), EmptyArray)
  /\ peeked' = NoPeeks
  /\ peekedHead' = NoPeeks
  /\ UNCHANGED <<variant, vu, skb, produced, callers>>

\* core_ring_full: spin_lock(producer_lock); __core_ring_full; spin_unlock
core_ring_full ==
  /\ variant = "core"
  /\ ring.producer_lock = Unlocked
  /\ Observe("full", 0, IF __core_ring_full(ring, slots) THEN 1 ELSE 0, EmptyArray)
  /\ UNCHANGED <<variant, vu, freed, ring, slots, skb, produced, consumed, peeked,
                 peekedHead, callers>>

\* core_ring_empty: spin_lock(consumer_lock); __core_ring_empty; spin_unlock
core_ring_empty ==
  /\ variant = "core"
  /\ ring.consumer_lock = Unlocked
  /\ Observe("empty", 0, IF __core_ring_empty(ring, slots) THEN 1 ELSE 0, EmptyArray)
  /\ UNCHANGED <<variant, vu, freed, ring, slots, skb, produced, consumed, peeked,
                 peekedHead, callers>>

\* -------------------------------------------- whole calls, packet ring
\* The payload offered next: the caller's n-th packet, with or without a tag.
NextSkbs == {2 * (Len(produced) + 1), 2 * (Len(produced) + 1) + 1}

call_skb_ring_queue ==
  /\ variant = "skb"
  /\ skb.wlock = Unlocked
  /\ Len(produced) < MaxProduced
  /\ \E p \in NextSkbs :
       LET res == skb_ring_queue(skb, p)
       IN /\ skb' = res.k
          /\ produced' = IF res.ret = 0 THEN Append(produced, p) ELSE produced
          /\ Observe("queue", p, res.ret, EmptyArray)
  /\ UNCHANGED <<variant, vu, freed, ring, slots, consumed, peeked, peekedHead, callers>>

call_skb_ring_dequeue ==
  /\ variant = "skb"
  /\ skb.rlock = Unlocked
  /\ LET res == skb_ring_dequeue(skb)
     IN /\ skb' = res.k
        /\ consumed' = IF res.ret # NULL THEN Append(consumed, res.ret) ELSE consumed
        /\ Observe("dequeue", 0, res.ret, EmptyArray)
  /\ UNCHANGED <<variant, vu, freed, ring, slots, produced, peeked, peekedHead, callers>>

call_skb_ring_peek ==
  /\ variant = "skb"
  /\ Observe("skb_peek", 0, skb_ring_peek(skb), EmptyArray)
  /\ UNCHANGED <<variant, vu, freed, ring, slots, skb, produced, consumed, peeked,
                 peekedHead, callers>>

Next ==
  \/ call_skb_ring_queue
  \/ call_skb_ring_dequeue
  \/ call_skb_ring_peek
  \/ core_ring_produce
  \/ core_ring_consume
  \/ core_ring_consume_batched
  \/ core_ring_peek
  \/ PTR_RING_PEEK_CALL
  \/ call_core_ring_cleanup

Spec == Init /\ [][Next]_vars

\* the index-based ring with its full and empty tests between the calls
QueryInit == Init /\ variant = "core"

QueryNext ==
  \/ core_ring_produce
  \/ core_ring_consume
  \/ core_ring_peek
  \/ core_ring_full
  \/ core_ring_empty

QuerySpec == QueryInit /\ [][QueryNext]_vars

\* ================================================= statement by statement
Goto(p, label) == pc' = [pc EXCEPT ![p] = label]
At(p, label) == pc[p] = label
Set(p, field, v) == loc' = [loc EXCEPT ![p][field] = v]

\* ---- core_ring_produce(r, ptr)
\* spin_lock(&r->producer_lock)
P_lock(p) ==
  /\ variant = "core" /\ At(p, "idle")
  /\ Len(produced) < MaxProduced
  /\ ring.producer_lock = Unlocked
  /\ ring' = [ring EXCEPT !.producer_lock = p]
  /\ loc' = [loc EXCEPT ![p] = [NoLocals EXCEPT !.ptr = NextElem]]
  /\ Goto(p, "p_test")
  /\ UNCHANGED <<variant, vu, freed, slots, skb, produced, consumed, observers>>

\* faulty variant of P_test: the validity test dropped
P_test_nofull(p) ==
  /\ At(p, "p_test")
  /\ IF ring.size = 0
     THEN Set(p, "ret", -ENOSPC) /\ Goto(p, "p_unlock")
     ELSE Goto(p, "p_copy") /\ UNCHANGED loc
  /\ UNCHANGED <<variant, vu, freed, ring, slots, skb, produced, consumed, observers>>

\* faulty variant of P_test: the producer also waits for the consumer lock
P_test_waits(p) ==
  /\ At(p, "p_test")
  /\ ring.consumer_lock = Unlocked
  /\ IF ring.size = 0 \/ valid_fn(slots, ring.producer)
     THEN Set(p, "ret", -ENOSPC) /\ Goto(p, "p_unlock")
     ELSE Goto(p, "p_copy") /\ UNCHANGED loc
  /\ UNCHANGED <<variant, vu, freed, ring, slots, skb, produced, consumed, observers>>

\* if (unlikely(!r->size) || r->valid_fn(r, r->producer)) return -ENOSPC;
P_test(p) ==
  /\ At(p, "p_test")
  /\ IF ring.size = 0 \/ valid_fn(slots, ring.producer)
     THEN Set(p, "ret", -ENOSPC) /\ Goto(p, "p_unlock")
     ELSE Goto(p, "p_copy") /\ UNCHANGED loc
  /\ UNCHANGED <<variant, vu, freed, ring, slots, skb, produced, consumed, observers>>

\* faulty variant of P_copy: the element goes to the consumer's slot
P_copy_consumer(p) ==
  /\ At(p, "p_copy")
  /\ slots' = copy_fn(slots, ring.consumer, loc[p].ptr)
  /\ produced' = Append(produced, loc[p].ptr)
  /\ Goto(p, "p_inc")
  /\ UNCHANGED <<variant, vu, freed, ring, skb, consumed, observers, loc>>

\* r->copy_fn(r, r->seek_fn(r, producer), ptr): the element is in the ring
P_copy(p) ==
  /\ At(p, "p_copy")
  /\ slots' = copy_fn(slots, ring.producer, loc[p].ptr)
  /\ produced' = Append(produced, loc[p].ptr)
  /\ Goto(p, "p_inc")
  /\ UNCHANGED <<variant, vu, freed, ring, skb, consumed, observers, loc>>

\* r->producer++
P_inc(p) ==
  /\ At(p, "p_inc")
  /\ ring' = [ring EXCEPT !.producer = ring.producer + 1]
  /\ Goto(p, "p_wrap")
  /\ UNCHANGED <<variant, vu, freed, slots, skb, produced, consumed, observers, loc>>

\* faulty variant of P_wrap: the wrap resets the consumer index as well
P_wrap_both(p) ==
  /\ At(p, "p_wrap")
  /\ ring' = IF ring.producer >= ring.size
             THEN [ring EXCEPT !.producer = 0, !.consumer = 0]
             ELSE ring
  /\ Set(p, "ret", 0)
  /\ Goto(p, "p_unlock")
  /\ UNCHANGED <<variant, vu, freed, slots, skb, produced, consumed, observers>>

\* faulty variant of P_wrap: the wrap test is off by one
P_wrap_late(p) ==
  /\ At(p, "p_wrap")
  /\ ring' = [ring EXCEPT !.producer = IF ring.producer > ring.size THEN 0
                                       ELSE ring.producer]
  /\ Set(p, "ret", 0)
  /\ Goto(p, "p_unlock")
  /\ UNCHANGED <<variant, vu, freed, slots, skb, produced, consumed, observers>>

\* if (unlikely(r->producer >= r->size)) r->producer = 0; return 0;
P_wrap(p) ==
  /\ At(p, "p_wrap")
  /\ ring' = [ring EXCEPT !.producer = IF ring.producer >= ring.size THEN 0
                                       ELSE ring.producer]
  /\ Set(p, "ret", 0)
  /\ Goto(p, "p_unlock")
  /\ UNCHANGED <<variant, vu, freed, slots, skb, produced, consumed, observers>>

\* spin_unlock(&r->producer_lock); return ret;
P_unlock(p) ==
  /\ At(p, "p_unlock")
  /\ ring' = [ring EXCEPT !.producer_lock = Unlocked]
  /\ Goto(p, "idle")
  /\ UNCHANGED <<variant, vu, freed, slots, skb, produced, consumed, observers, loc>>

\* ---- core_ring_consume(r, ptr)
\* spin_lock(&r->consumer_lock)
C_lock(p) ==
  /\ variant = "core" /\ At(p, "idle")
  /\ ring.consumer_lock = Unlocked
  /\ ring' = [ring EXCEPT !.consumer_lock = p]
  /\ loc' = [loc EXCEPT ![p] = NoLocals]
  /\ Goto(p, "c_test")
  /\ UNCHANGED <<variant, vu, freed, slots, skb, produced, consumed, observers>>

\* if (r->valid_fn(r, r->consumer)) ... else return NULL;
C_test(p) ==
  /\ At(p, "c_test")
  /\ IF valid_fn(slots, ring.consumer)
     THEN Goto(p, "c_copy") /\ UNCHANGED loc
     ELSE Set(p, "ret", NULL) /\ Goto(p, "c_unlock")
  /\ UNCHANGED <<variant, vu, freed, ring, slots, skb, produced, consumed, observers>>

\* r->copy_fn(r, ptr, r->seek_fn(r, r->consumer)): the element is the caller's
C_copy(p) ==
  /\ At(p, "c_copy")
  /\ Set(p, "ret", seek_fn(slots, ring.consumer))
  /\ consumed' = Append(consumed, seek_fn(slots, ring.consumer))
  /\ Goto(p, "c_zero")
  /\ UNCHANGED <<variant, vu, freed, ring, slots, skb, produced, observers>>

\* faulty variant of C_zero: every slot is zeroed
C_zero_all(p) ==
  /\ At(p, "c_zero")
  /\ slots' = [i \in DOMAIN slots |-> NULL]
  /\ Goto(p, "c_inc")
  /\ UNCHANGED <<variant, vu, freed, ring, skb, produced, consumed, observers, loc>>

\* __core_ring_discard_one: r->zero_fn(r, r->consumer)
C_zero(p) ==
  /\ At(p, "c_zero")
  /\ slots' = zero_fn(slots, ring.consumer)
  /\ Goto(p, "c_inc")
  /\ UNCHANGED <<variant, vu, freed, ring, skb, produced, consumed, observers, loc>>

\* r->consumer++
C_inc(p) ==
  /\ At(p, "c_inc")
  /\ ring' = [ring EXCEPT !.consumer = ring.consumer + 1]
  /\ Goto(p, "c_wrap")
  /\ UNCHANGED <<variant, vu, freed, slots, skb, produced, consumed, observers, loc>>

\* if (unlikely(r->consumer >= r->size)) r->consumer = 0;
C_wrap(p) ==
  /\ At(p, "c_wrap")
  /\ ring' = [ring EXCEPT !.consumer = IF ring.consumer >= ring.size THEN 0
                                       ELSE ring.consumer]
  /\ Goto(p, "c_unlock")
  /\ UNCHANGED <<variant, vu, freed, slots, skb, produced, consumed, observers, loc>>

\* spin_unlock(&r->consumer_lock); return ptr;
C_unlock(p) ==
  /\ At(p, "c_unlock")
  /\ ring' = [ring EXCEPT !.consumer_lock = Unlocked]
  /\ Goto(p, "idle")
  /\ UNCHANGED <<variant, vu, freed, slots, skb, produced, consumed, observers, loc>>

\* ---- skb_ring_queue(ring, skb)
\* spin_lock(&ring->wlock)
Q_lock(p) ==
  /\ variant = "skb" /\ At(p, "idle")
  /\ Len(produced) < MaxProduced
  /\ skb.wlock = Unlocked
  /\ skb' = [skb EXCEPT !.wlock = p]
  /\ \E s \in NextSkbs : loc' = [loc EXCEPT ![p] = [NoLocals EXCEPT !.ptr = s]]
  /\ Goto(p, "q_load_tail")
  /\ UNCHANGED <<variant, vu, freed, ring, slots, produced, consumed, observers>>

\* tail = smp_load_acquire(&ring->tail)
Q_load_tail(p) ==
  /\ At(p, "q_load_tail")
  /\ Set(p, "tail", skb.tail)
  /\ Goto(p, "q_load_head")
  /\ UNCHANGED <<variant, vu, freed, ring, slots, skb, produced, consumed, observers>>

\* head = ring->head
Q_load_head(p) ==
  /\ At(p, "q_load_head")
  /\ Set(p, "head", skb.head)
  /\ Goto(p, "q_space")
  /\ UNCHANGED <<variant, vu, freed, ring, slots, skb, produced, consumed, observers>>

\* faulty variant of Q_space: the space test always passes
Q_space_nocheck(p) ==
  /\ At(p, "q_space")
  /\ IF CIRC_SPACE(loc[p].head, loc[p].tail, skb.size) >= 0
     THEN Goto(p, "q_skb") /\ UNCHANGED loc
     ELSE Set(p, "ret", -EFAULT) /\ Goto(p, "q_unlock")
  /\ UNCHANGED <<variant, vu, freed, ring, slots, skb, produced, consumed, observers>>

\* if (CIRC_SPACE(head, tail, ring->size) >= 1) ... else ret = -EFAULT;
Q_space(p) ==
  /\ At(p, "q_space")
  /\ IF CIRC_SPACE(loc[p].head, loc[p].tail, skb.size) >= 1
     THEN Goto(p, "q_skb") /\ UNCHANGED loc
     ELSE Set(p, "ret", -EFAULT) /\ Goto(p, "q_unlock")
  /\ UNCHANGED <<variant, vu, freed, ring, slots, skb, produced, consumed, observers>>

\* desc = &ring->descs[head]; desc->skb = skb
Q_skb(p) ==
  /\ At(p, "q_skb")
  /\ skb' = [skb EXCEPT !.descs[loc[p].head].skb = loc[p].ptr]
  /\ Goto(p, "q_len")
  /\ UNCHANGED <<variant, vu, freed, ring, slots, produced, consumed, observers, loc>>

\* desc->len = skb->len
Q_len(p) ==
  /\ At(p, "q_len")
  /\ skb' = [skb EXCEPT !.descs[loc[p].head].len = skb_len(loc[p].ptr)]
  /\ Goto(p, "q_vlan")
  /\ UNCHANGED <<variant, vu, freed, ring, slots, produced, consumed, observers, loc>>

\* faulty variant of Q_vlan: the length is left without the VLAN header
Q_vlan_skipped(p) ==
  /\ At(p, "q_vlan")
  /\ Goto(p, "q_store_head")
  /\ UNCHANGED <<variant, vu, freed, ring, slots, skb, produced, consumed, observers, loc>>

\* if (skb_vlan_tag_present(skb)) desc->len += VLAN_HLEN
Q_vlan(p) ==
  /\ At(p, "q_vlan")
  /\ skb' = IF skb_vlan_tag_present(loc[p].ptr)
            THEN [skb EXCEPT !.descs[loc[p].head].len = @ + VLAN_HLEN]
            ELSE skb
  /\ Goto(p, "q_store_head")
  /\ UNCHANGED <<variant, vu, freed, ring, slots, produced, consumed, observers, loc>>

\* smp_store_release(&ring->head, (head + 1) & (ring->size - 1)): published
Q_store_head(p) ==
  /\ At(p, "q_store_head")
  /\ skb' = [skb EXCEPT !.head = BitAnd(ULong(loc[p].head + 1), ULong(skb.size - 1))]
  /\ produced' = Append(produced, loc[p].ptr)
  /\ Goto(p, "q_unlock")
  /\ UNCHANGED <<variant, vu, freed, ring, slots, consumed, observers, loc>>

\* spin_unlock(&ring->wlock); return ret;
Q_unlock(p) ==
  /\ At(p, "q_unlock")
  /\ skb' = [skb EXCEPT !.wlock = Unlocked]
  /\ Goto(p, "idle")
  /\ UNCHANGED <<variant, vu, freed, ring, slots, produced, consumed, observers, loc>>

\* ---- skb_ring_dequeue(ring)
\* spin_lock(&ring->rlock)
D_lock(p) ==
  /\ variant = "skb" /\ At(p, "idle")
  /\ skb.rlock = Unlocked
  /\ skb' = [skb EXCEPT !.rlock = p]
  /\ loc' = [loc EXCEPT ![p] = NoLocals]
  /\ Goto(p, "d_load_head")
  /\ UNCHANGED <<variant, vu, freed, ring, slots, produced, consumed, observers>>

\* head = smp_load_acquire(&ring->head)
D_load_head(p) ==
  /\ At(p, "d_load_head")
  /\ Set(p, "head", skb.head)
  /\ Goto(p, "d_load_tail")
  /\ UNCHANGED <<variant, vu, freed, ring, slots, skb, produced, consumed, observers>>

\* tail = ring->tail
D_load_tail(p) ==
  /\ At(p, "d_load_tail")
  /\ Set(p, "tail", skb.tail)
  /\ Goto(p, "d_cnt")
  /\ UNCHANGED <<variant, vu, freed, ring, slots, skb, produced, consumed, observers>>

\* if (CIRC_CNT(head, tail, ring->size) >= 1) ...
D_cnt(p) ==
  /\ At(p, "d_cnt")
  /\ IF CIRC_CNT(loc[p].head, loc[p].tail, skb.size) >= 1
     THEN Goto(p, "d_read")
     ELSE Goto(p, "d_unlock")
  /\ UNCHANGED <<variant, vu, freed, ring, slots, skb, produced, consumed, observers, loc>>

\* desc = &ring->descs[tail]; skb = desc->skb
D_read(p) ==
  /\ At(p, "d_read")
  /\ Set(p, "ret", skb.descs[loc[p].tail].skb)
  /\ consumed' = Append(consumed, skb.descs[loc[p].tail].skb)
  /\ Goto(p, "d_store_tail")
  /\ UNCHANGED <<variant, vu, freed, ring, slots, skb, produced, observers>>

\* smp_store_release(&ring->tail, (tail + 1) & (ring->size - 1))
D_store_tail(p) ==
  /\ At(p, "d_store_tail")
  /\ skb' = [skb EXCEPT !.tail = BitAnd(ULong(loc[p].tail + 1), ULong(skb.size - 1))]
  /\ Goto(p, "d_unlock")
  /\ UNCHANGED <<variant, vu, freed, ring, slots, produced, consumed, observers, loc>>

\* spin_unlock(&ring->rlock); return skb;
D_unlock(p) ==
  /\ At(p, "d_unlock")
  /\ skb' = [skb EXCEPT !.rlock = Unlocked]
  /\ Goto(p, "idle")
  /\ UNCHANGED <<variant, vu, freed, ring, slots, produced, consumed, observers, loc>>

ProducerStep(p) ==
  \/ P_lock(p) \/ P_test(p) \/ P_copy(p) \/ P_inc(p) \/ P_wrap(p) \/ P_unlock(p)
  \/ Q_lock(p) \/ Q_load_tail(p) \/ Q_load_head(p) \/ Q_space(p) \/ Q_skb(p)
  \/ Q_len(p) \/ Q_vlan(p) \/ Q_store_head(p) \/ Q_unlock(p)

ConsumerStep(p) ==
  \/ C_lock(p) \/ C_test(p) \/ C_copy(p) \/ C_zero(p) \/ C_inc(p) \/ C_wrap(p)
  \/ C_unlock(p)
  \/ D_lock(p) \/ D_load_head(p) \/ D_load_tail(p) \/ D_cnt(p) \/ D_read(p)
  \/ D_store_tail(p) \/ D_unlock(p)

StepNext ==
  \/ \E p \in Producers : ProducerStep(p)
  \/ \E p \in Consumers : ConsumerStep(p)

StepSpec == Init /\ [][StepNext]_vars

\* =========================================== skb_ring_purge, by statement
\* faulty variant of U_lock_r: wlock is taken first
U_lock_r_wlock(p) ==
  /\ variant = "skb" /\ At(p, "idle")
  /\ skb.wlock = Unlocked
  /\ skb' = [skb EXCEPT !.wlock = p]
  /\ loc' = [loc EXCEPT ![p] = NoLocals]
  /\ Goto(p, "u_lock_w")
  /\ UNCHANGED <<variant, vu, freed, ring, slots, produced, consumed, observers>>

\* spin_lock_bh(&ring->rlock)
U_lock_r(p) ==
  /\ variant = "skb" /\ At(p, "idle")
  /\ skb.rlock = Unlocked
  /\ skb' = [skb EXCEPT !.rlock = p]
  /\ loc' = [loc EXCEPT ![p] = NoLocals]
  /\ Goto(p, "u_lock_w")
  /\ UNCHANGED <<variant, vu, freed, ring, slots, produced, consumed, observers>>

\* spin_lock(&ring->wlock)
U_lock_w(p) ==
  /\ At(p, "u_lock_w")
  /\ skb.wlock = Unlocked
  /\ skb' = [skb EXCEPT !.wlock = p]
  /\ Goto(p, "u_load_head")
  /\ UNCHANGED <<variant, vu, freed, ring, slots, produced, consumed, observers, loc>>

\* head = smp_load_acquire(&ring->head)
U_load_head(p) ==
  /\ At(p, "u_load_head")
  /\ Set(p, "head", skb.head)
  /\ Goto(p, "u_load_tail")
  /\ UNCHANGED <<variant, vu, freed, ring, slots, skb, produced, consumed, observers>>

\* tail = ring->tail
U_load_tail(p) ==
  /\ At(p, "u_load_tail")
  /\ Set(p, "tail", skb.tail)
  /\ Goto(p, "u_cnt")
  /\ UNCHANGED <<variant, vu, freed, ring, slots, skb, produced, consumed, observers>>

\* while (CIRC_CNT(head, tail, ring->size) >= 1): head and tail are the locals
U_cnt(p) ==
  /\ At(p, "u_cnt")
  /\ IF CIRC_CNT(loc[p].head, loc[p].tail, skb.size) >= 1
     THEN Goto(p, "u_free")
     ELSE Goto(p, "u_unlock_w")
  /\ UNCHANGED <<variant, vu, freed, ring, slots, skb, produced, consumed, observers, loc>>

\* desc = &ring->descs[tail]; skb = desc->skb; kfree_skb(skb)
U_free(p) ==
  /\ At(p, "u_free")
  /\ Len(freed) < MaxFreed
  /\ freed' = Append(freed, skb.descs[loc[p].tail].skb)
  /\ Goto(p, "u_store_tail")
  /\ UNCHANGED <<variant, vu, ring, slots, skb, produced, consumed, observers, loc>>

\* smp_store_release(&ring->tail, (tail + 1) & (ring->size - 1)); the local
\* tail is not assigned, and the loop tests again
U_store_tail(p) ==
  /\ At(p, "u_store_tail")
  /\ skb' = [skb EXCEPT !.tail = BitAnd(ULong(loc[p].tail + 1), ULong(skb.size - 1))]
  /\ Goto(p, "u_cnt")
  /\ UNCHANGED <<variant, vu, freed, ring, slots, produced, consumed, observers, loc>>

\* spin_unlock(&ring->wlock)
U_unlock_w(p) ==
  /\ At(p, "u_unlock_w")
  /\ skb' = [skb EXCEPT !.wlock = Unlocked]
  /\ Goto(p, "u_unlock_r")
  /\ UNCHANGED <<variant, vu, freed, ring, slots, produced, consumed, observers, loc>>

\* spin_unlock_bh(&ring->rlock)
U_unlock_r(p) ==
  /\ At(p, "u_unlock_r")
  /\ skb' = [skb EXCEPT !.rlock = Unlocked]
  /\ Goto(p, "idle")
  /\ UNCHANGED <<variant, vu, freed, ring, slots, produced, consumed, observers, loc>>

QueueStep(p) ==
  \/ Q_lock(p) \/ Q_load_tail(p) \/ Q_load_head(p) \/ Q_space(p) \/ Q_skb(p)
  \/ Q_len(p) \/ Q_vlan(p) \/ Q_store_head(p) \/ Q_unlock(p)

DequeueStep(p) ==
  \/ D_lock(p) \/ D_load_head(p) \/ D_load_tail(p) \/ D_cnt(p) \/ D_read(p)
  \/ D_store_tail(p) \/ D_unlock(p)

PurgeStep(p) ==
  \/ U_lock_r(p) \/ U_lock_w(p) \/ U_load_head(p) \/ U_load_tail(p) \/ U_cnt(p)
  \/ U_free(p) \/ U_store_tail(p) \/ U_unlock_w(p) \/ U_unlock_r(p)

\* the packet ring with queue, dequeue and purge callers
PurgeInit == Init /\ variant = "skb"

PurgeNext ==
  \/ \E p \in Producers : QueueStep(p)
  \/ \E p \in Consumers : DequeueStep(p)
  \/ \E p \in Purgers : PurgeStep(p)

PurgeSpec == PurgeInit /\ [][PurgeNext]_vars

\* ================================= core_ring_consume_batched, by statement
\* spin_lock(&r->consumer_lock); i = 0
B_lock(p) ==
  /\ variant = "core" /\ At(p, "idle")
  /\ ring.consumer_lock = Unlocked
  /\ ring' = [ring EXCEPT !.consumer_lock = p]
  /\ \E n \in 0 .. MaxBatch : loc' = [loc EXCEPT ![p] = [NoLocals EXCEPT !.n = n]]
  /\ Goto(p, "b_loop")
  /\ UNCHANGED <<variant, vu, freed, slots, skb, produced, consumed, observers>>

\* for (...; i < n; ...)
B_loop(p) ==
  /\ At(p, "b_loop")
  /\ IF loc[p].i < loc[p].n
     THEN Goto(p, "b_test")
     ELSE Goto(p, "b_unlock")
  /\ UNCHANGED <<variant, vu, freed, ring, slots, skb, produced, consumed, observers, loc>>

\* ptr = __core_ring_consume(r, array): if (r->valid_fn(r, r->consumer)) ...;
\* if (!ptr) break;
B_test(p) ==
  /\ At(p, "b_test")
  /\ IF valid_fn(slots, ring.consumer)
     THEN Goto(p, "b_copy")
     ELSE Goto(p, "b_unlock")
  /\ UNCHANGED <<variant, vu, freed, ring, slots, skb, produced, consumed, observers, loc>>

\* r->copy_fn(r, array, r->seek_fn(r, r->consumer))
B_copy(p) ==
  /\ At(p, "b_copy")
  /\ Set(p, "ptr", seek_fn(slots, ring.consumer))
  /\ consumed' = Append(consumed, seek_fn(slots, ring.consumer))
  /\ Goto(p, "b_zero")
  /\ UNCHANGED <<variant, vu, freed, ring, slots, skb, produced, observers>>

\* __core_ring_discard_one: r->zero_fn(r, r->consumer)
B_zero(p) ==
  /\ At(p, "b_zero")
  /\ slots' = zero_fn(slots, ring.consumer)
  /\ Goto(p, "b_inc")
  /\ UNCHANGED <<variant, vu, freed, ring, skb, produced, consumed, observers, loc>>

\* r->consumer++
B_inc(p) ==
  /\ At(p, "b_inc")
  /\ ring' = [ring EXCEPT !.consumer = ring.consumer + 1]
  /\ Goto(p, "b_wrap")
  /\ UNCHANGED <<variant, vu, freed, slots, skb, produced, consumed, observers, loc>>

\* if (unlikely(r->consumer >= r->size)) r->consumer = 0;
\* array += r->entry_size; i++
B_wrap(p) ==
  /\ At(p, "b_wrap")
  /\ ring' = [ring EXCEPT !.consumer = IF ring.consumer >= ring.size THEN 0
                                       ELSE ring.consumer]
  /\ Set(p, "i", loc[p].i + 1)
  /\ Goto(p, "b_loop")
  /\ UNCHANGED <<variant, vu, freed, slots, skb, produced, consumed, observers>>

\* ret = i; spin_unlock(&r->consumer_lock); return ret;
B_unlock(p) ==
  /\ At(p, "b_unlock")
  /\ ring' = [ring EXCEPT !.consumer_lock = Unlocked]
  /\ Set(p, "ret", loc[p].i)
  /\ Goto(p, "idle")
  /\ UNCHANGED <<variant, vu, freed, slots, skb, produced, consumed, observers>>

BatchedStep(p) ==
  \/ B_lock(p) \/ B_loop(p) \/ B_test(p) \/ B_copy(p) \/ B_zero(p) \/ B_inc(p)
  \/ B_wrap(p) \/ B_unlock(p)

\* every call of either side, one caller per side
SideNext ==
  \/ \E p \in Producers : ProducerStep(p)
  \/ \E p \in Consumers : ConsumerStep(p)
  \/ \E p \in Consumers : BatchedStep(p)

SideSpec == Init /\ [][SideNext]_vars

\* ============================================ skb_ring_peek, by statement
\* The call takes no lock. loc.n remembers how many payloads had left the ring
\* (tail stored) when the call began.
Dequeued == Len(consumed) - Cardinality({c \in Consumers : pc[c] = "d_store_tail"})

\* unsigned long head = smp_load_acquire(&ring->head)
K_load_head(p) ==
  /\ variant = "skb" /\ At(p, "idle")
  /\ loc' = [loc EXCEPT ![p] = [NoLocals EXCEPT !.head = skb.head,
                                                !.n = Dequeued]]
  /\ Goto(p, "k_load_tail")
  /\ UNCHANGED <<variant, vu, freed, ring, slots, skb, produced, consumed, observers>>

\* unsigned long tail = ACCESS_ONCE(ring->tail); int ret = 0
K_load_tail(p) ==
  /\ At(p, "k_load_tail")
  /\ Set(p, "tail", skb.tail)
  /\ Goto(p, "k_cnt")
  /\ UNCHANGED <<variant, vu, freed, ring, slots, skb, produced, consumed, observers>>

\* if (CIRC_CNT(head, tail, ring->size) >= 1)
K_cnt(p) ==
  /\ At(p, "k_cnt")
  /\ IF CIRC_CNT(loc[p].head, loc[p].tail, skb.size) >= 1
     THEN Goto(p, "k_read")
     ELSE Goto(p, "k_ret")
  /\ UNCHANGED <<variant, vu, freed, ring, slots, skb, produced, consumed, observers, loc>>

\* what a read of a length yields: the stored one, or, of a descriptor no
\* queue has written since kmalloc, whatever the memory held (0 or not)
ReadLen(d) == IF d.len = Uninit.len THEN {0, 1} ELSE {d.len}

\* ret = ring->descs[tail].len
K_read(p) ==
  /\ At(p, "k_read")
  /\ \E v \in ReadLen(skb.descs[loc[p].tail]) : Set(p, "ret", v)
  /\ Goto(p, "k_ret")
  /\ UNCHANGED <<variant, vu, freed, ring, slots, skb, produced, consumed, observers>>

\* return ret;
K_ret(p) ==
  /\ At(p, "k_ret")
  /\ Goto(p, "idle")
  /\ UNCHANGED <<variant, vu, freed, ring, slots, skb, produced, consumed, observers, loc>>

PeekStep(p) ==
  \/ K_load_head(p) \/ K_load_tail(p) \/ K_cnt(p) \/ K_read(p) \/ K_ret(p)

\* the packet ring with a queue, a dequeue and a peek caller
PeekNext ==
  \/ \E p \in Producers : QueueStep(p)
  \/ \E p \in Consumers : DequeueStep(p)
  \/ \E p \in Peekers : PeekStep(p)

\* the rings the peek caller is run on
MaxPeekSize == 2

PeekInit == PurgeInit /\ skb.size <= MaxPeekSize

PeekSpec == PeekInit /\ [][PeekNext]_vars

\* every call of both rings, statement by statement
AllNext ==
  \/ \E p \in Producers : ProducerStep(p)
  \/ \E p \in Consumers : ConsumerStep(p)
  \/ \E p \in Consumers : BatchedStep(p)
  \/ \E p \in Purgers : PurgeStep(p)

AllSpec == Init /\ [][AllNext]_vars

\* ==================================================== vhost-user lifecycle
\* vhost_net_cleanup(v): one more cleanup of instance v
vhost_net_cleanup(s, v) == [s EXCEPT !.cleanups[v] = @ + 1]

\* the loop of vhost_user_start from queue i on; inits[j] tells whether
\* vhost_net_init succeeds for queue j. ret is 0 with running set, or -1.
RECURSIVE start_loop(_, _, _)
start_loop(s, i, inits) ==
  IF i >= s.queues THEN [s |-> [s EXCEPT !.running = TRUE], ret |-> 0]
  ELSE IF inits[i]
       THEN start_loop([s EXCEPT !.peers[i] = s.created + 1,
                                 !.created = @ + 1,
                                 !.cleanups = Append(@, 0)], i + 1, inits)
       ELSE [s |-> [s EXCEPT !.peers[i] = NULL], ret |-> -1]

\* vhost_user_start(s): max_queues is what the first instance reports. A NULL
\* first instance is dereferenced by vhost_net_get_max_queues: the process
\* dies, which is what the caller makes of -1 as well.
vhost_user_start(s, inits, max_queues) ==
  IF s.running THEN [s |-> s, ret |-> 0]
  ELSE IF ~inits[0] THEN [s |-> [s EXCEPT !.peers[0] = NULL], ret |-> -1]
  ELSE LET s0 == [s EXCEPT !.peers[0] = s.created + 1,
                           !.created = @ + 1,
                           !.cleanups = Append(@, 0)]
       IN IF s0.queues >= max_queues THEN [s |-> s0, ret |-> -1]
          ELSE start_loop(s0, 1, inits)

\* the loop of vhost_user_stop from queue i on
RECURSIVE stop_loop(_, _)
stop_loop(s, i) ==
  IF i >= s.queues THEN s
  ELSE stop_loop(IF s.peers[i] # NULL THEN vhost_net_cleanup(s, s.peers[i]) ELSE s,
                 i + 1)

\* vhost_user_stop(s): the pointers stay as they were
vhost_user_stop(s) ==
  IF ~s.running THEN s
  ELSE [stop_loop(s, 0) EXCEPT !.running = FALSE]

\* vhost_user_cleanup(nc) for the queue nc->queue_index = q
vhost_user_cleanup(s, q) ==
  LET s1 == IF s.peers[q] # NULL THEN vhost_net_cleanup(s, s.peers[q]) ELSE s
  IN [s1 EXCEPT !.uaf = s.uaf \/ s.freed,
                !.freed = s.freed \/ (q = s.queues - 1),
                !.next_nc = q + 1]

VhostIdle ==
  UNCHANGED <<variant, ring, slots, skb, produced, consumed, freed, last, rep,
              peeked, peekedHead, scen, pc, loc>>

\* net_vhost_user_event(s, CHR_EVENT_OPENED), before the net clients go
CHR_EVENT_OPENED ==
  /\ variant = "vhost" /\ ~vu.exited /\ vu.next_nc = 0
  /\ vu.created + vu.queues <= MaxInstances
  /\ \E inits \in [0 .. vu.queues - 1 -> BOOLEAN], max_queues \in 1 .. MaxQueues + 1 :
       LET res == vhost_user_start(vu, inits, max_queues)
       IN vu' = [res.s EXCEPT !.exited = (res.ret < 0)]
  /\ VhostIdle

\* net_vhost_user_event(s, CHR_EVENT_CLOSED), before the net clients go
CHR_EVENT_CLOSED ==
  /\ variant = "vhost" /\ ~vu.exited /\ vu.next_nc = 0
  /\ vu' = vhost_user_stop(vu)
  /\ VhostIdle

\* the net clients are deleted: .cleanup of each queue, in queue order
call_vhost_user_cleanup ==
  /\ variant = "vhost" /\ ~vu.exited /\ vu.next_nc < vu.queues
  /\ vu' = vhost_user_cleanup(vu, vu.next_nc)
  /\ VhostIdle

VhostInit == Init /\ variant = "vhost"

VhostNext ==
  \/ CHR_EVENT_OPENED
  \/ CHR_EVENT_CLOSED
  \/ call_vhost_user_cleanup

VhostSpec == VhostInit /\ [][VhostNext]_vars

\* ============================================================ claims
NValid(s) == Cardinality({i \in DOMAIN s : valid_fn(s, i)})

\* the elements accepted and not yet returned, oldest first
Resident == SubSeq(produced, Len(consumed) + 1, Len(produced))

\* n single consumes in a row: what they return, and the ring they leave
RECURSIVE ConsumeSeq(_, _, _)
ConsumeSeq(r, s, n) ==
  IF n <= 0 THEN [seq |-> <<>>, r |-> r, s |-> s]
  ELSE LET c == __core_ring_consume(r, s)
           rest == ConsumeSeq(c.r, c.s, n - 1)
       IN [seq |-> <<c.ret>> \o rest.seq, r |-> rest.r, s |-> rest.s]

RECURSIVE DequeueSeq(_, _)
DequeueSeq(k, n) ==
  IF n <= 0 THEN <<>>
  ELSE LET d == skb_ring_dequeue(k)
       IN <<d.ret>> \o DequeueSeq(d.k, n - 1)

\* C3: a produce into an index-based ring of size C holding C elements returns
\* -ENOSPC, leaves producer, consumer and every slot as they were, and the C
\* elements then come out of C consumes in the order they went in.
C3_FullRejects ==
  (variant = "core" /\ last.op = "produce" /\ last.np - last.nc = last.r.size)
    => /\ last.ret = -ENOSPC
       /\ ring = last.r
       /\ slots = last.s
       /\ ConsumeSeq(ring, slots, ring.size).seq = Resident

\* the (C+1)-th produce of a run of produces with no consume, C >= 2, was rejected
C3_Witness ==
  /\ variant = "core" /\ ring.size >= 2
  /\ last.op = "produce" /\ last.ret = -ENOSPC
  /\ consumed = <<>> /\ Len(produced) = ring.size

\* C5: a consume (__core_ring_consume, skb_ring_dequeue) on a ring holding
\* nothing, fresh or drained, returns NULL and changes no index and no slot,
\* however often it is repeated.
C5_EmptyYieldsNothing ==
  (last.op \in {"consume", "dequeue"} /\ last.np = last.nc)
    => /\ last.ret = NULL
       /\ ring = last.r /\ slots = last.s /\ skb = last.k

\* a drained index-based ring was consumed from three times in a row
C5_Witness ==
  /\ variant = "core" /\ last.op = "consume" /\ last.ret = NULL
  /\ Len(produced) >= 2 /\ Len(consumed) = Len(produced) /\ rep >= 3

\* C6: between calls the number of valid slots is produces minus consumes, lies
\* in 0..size and is congruent to producer - consumer modulo size.
Congruent(a, b, n) == IF n = 0 THEN a = b ELSE (a - b) % n = 0

C6_CountConservation ==
  variant = "core"
    => /\ NValid(slots) = Len(produced) - Len(consumed)
       /\ NValid(slots) \in 0 .. ring.size
       /\ Congruent(NValid(slots), ring.producer - ring.consumer, ring.size)

\* a full ring whose indices have wrapped
C6_Witness ==
  /\ variant = "core" /\ ring.size >= 2 /\ NValid(slots) = ring.size
  /\ Len(consumed) > ring.size /\ ring.consumer > 0

\* C7 as stated: slot i is valid iff i is in [consumer, producer) modulo size.
InInterval(i, c, p, n) == (i - c) % n < (p - c) % n

C7_AsStated ==
  variant = "core"
    => \A i \in DOMAIN slots :
         valid_fn(slots, i) <=> InInterval(i, ring.consumer, ring.producer, ring.size)

\* C7 amended: slot i is valid iff i is in [consumer, producer) modulo size,
\* except in a full ring, where producer = consumer and every slot is valid.
C7_ValidInterval ==
  variant = "core"
    => IF Len(produced) - Len(consumed) = ring.size
       THEN /\ ring.producer = ring.consumer
            /\ \A i \in DOMAIN slots : valid_fn(slots, i)
       ELSE \A i \in DOMAIN slots :
              valid_fn(slots, i)
                <=> InInterval(i, ring.consumer, ring.producer, ring.size)

\* a full ring of three or more slots, filled up again after its indices moved on
C7_Witness ==
  /\ variant = "core" /\ ring.size >= 3
  /\ Len(produced) - Len(consumed) = ring.size
  /\ ring.producer = ring.consumer /\ ring.consumer = 2

\* C8 as stated: the peeks made since the last consume all returned the same
\* element, none changed the ring, and a consume returns what they returned.
HeadOf(np, nc) == IF np > nc THEN produced[nc + 1] ELSE NULL

PeekLeavesRing ==
  last.op \in {"peek", "peek_call"}
    => /\ ring = last.r /\ slots = last.s
       /\ last.ret = IF last.op = "peek" THEN HeadOf(last.np, last.nc)
                     ELSE PeekFn(HeadOf(last.np, last.nc))

C8_AsStated ==
  variant = "core"
    => /\ PeekLeavesRing
       /\ Cardinality(peeked.vals) <= 1
       /\ (last.op = "consume" /\ last.pk.n > 0) => last.pk.vals = {last.ret}

\* C8 amended: a peek returns the head element (NULL when the ring is empty or
\* its size is 0) and leaves both indices and every slot unchanged; the peeks
\* made since the head element last changed (by a consume, or by a produce into
\* an empty ring) all returned the same, and a consume that follows them
\* returns exactly that.
C8_PeekDoesNotMutate ==
  variant = "core"
    => /\ PeekLeavesRing
       /\ Cardinality(peekedHead.vals) <= 1
       /\ (last.op = "consume" /\ last.pkh.n > 0) => last.pkh.vals = {last.ret}

\* three peeks of a nonempty ring, then a consume
C8_Witness ==
  /\ variant = "core" /\ last.op = "consume" /\ last.ret # NULL
  /\ last.pkh.n >= 3 /\ last.np - last.nc >= 2

\* C9: with k elements resident, consume_batched(r, array, n) returns min(k, n)
\* (0 when n <= 0), puts the elements at array + i * entry_size in FIFO order
\* and nothing elsewhere, and leaves the ring as that many single consumes do.
C9_BatchedEquivalence ==
  (variant = "core" /\ last.op = "consume_batched")
    => LET k == last.np - last.nc
           m == Min(k, Max(last.arg, 0))
           one == ConsumeSeq(last.r, last.s, m)
       IN /\ last.ret = m
          /\ \A o \in DOMAIN last.out :
               last.out[o] =
                 IF o % last.r.entry_size = 0 /\ o \div last.r.entry_size < m
                 THEN one.seq[o \div last.r.entry_size + 1]
                 ELSE NULL
          /\ \A i \in 1 .. m : one.seq[i] = produced[last.nc + i]
          /\ ring = one.r /\ slots = one.s

\* a batch of three was asked of a ring of entry size 2 holding two elements
C9_Witness ==
  /\ variant = "core" /\ last.op = "consume_batched"
  /\ last.r.entry_size = 2 /\ last.arg = 3 /\ last.ret = 2
  /\ last.np - last.nc = 2 /\ last.nc >= 1

\* C10: on a ring of size 4, produce A B C D succeed, produce E is rejected,
\* consume gives A, produce E succeeds, consumes give B, C, peek gives D,
\* consumes give D, E, and the last consume gives nothing.
ScriptArg == <<1, 2, 3, 4, 5, 0, 5, 0, 0, 0, 0, 0, 0>>
Expected == <<0, 0, 0, 0, -ENOSPC, 1, 0, 2, 3, 4, 4, 5, NULL>>

C10_Scenario ==
  scen >= 1 => /\ last.op = Script[scen]
               /\ last.arg = ScriptArg[scen]
               /\ last.ret = Expected[scen]

C10_Witness == scen = Len(Script) /\ ring.size = 4 /\ Len(consumed) = 5

IsPow2(n) == \E i \in 0 .. WordBits : n = 2 ^ i

\* C4 as stated: in a packet ring of power-of-two size C a queue call finding
\* fewer than C payloads resident succeeds, and the resident count ranges
\* over 0..C.
C4_AsStated ==
  (variant = "skb" /\ IsPow2(skb.size) /\ last.op = "queue"
     /\ last.np - last.nc < skb.size)
    => last.ret = 0

\* C4 amended: a packet ring of power-of-two size C holds at most C - 1
\* payloads: a queue call finding fewer than C - 1 resident succeeds, one
\* finding C - 1 resident returns the error (-EFAULT) and leaves head, tail and
\* every descriptor unchanged, the C - 1 residents then come out of C - 1
\* dequeues in their original order, and the resident count stays in 0..C-1.
C4_PacketRingCapacity ==
  (variant = "skb" /\ IsPow2(skb.size))
    => /\ skb_ring_queue_len(skb) = Len(produced) - Len(consumed)
       /\ skb_ring_queue_len(skb) \in 0 .. skb.size - 1
       /\ (last.op = "queue" /\ last.np - last.nc < skb.size - 1)
            => last.ret = 0
       /\ (last.op = "queue" /\ last.np - last.nc = skb.size - 1)
            => /\ last.ret = -EFAULT
               /\ skb = last.k
               /\ DequeueSeq(skb, skb.size - 1) = Resident

\* the fourth queue call in a row on a ring of size 4 was rejected
C4_Witness ==
  /\ variant = "skb" /\ skb.size = 4 /\ last.op = "queue"
  /\ last.ret = -EFAULT /\ Len(produced) = 3 /\ consumed = <<>>

IsPrefix(a, b) == Len(a) <= Len(b) /\ a = SubSeq(b, 1, Len(a))

\* C1: with a producer-side and a consumer-side caller of an index-based ring of
\* size > 0 running statement by statement, what the consumes have returned is
\* always a prefix of what the produces have put in the ring.
C1_IndexRingFifo ==
  (variant = "core" /\ ring.size > 0) => IsPrefix(consumed, produced)

\* both callers are in mid-call on a ring of size 2 that has gone round
C1_Witness ==
  /\ variant = "core" /\ ring.size = 2 /\ Len(consumed) >= 3
  /\ pc["p1"] = "p_inc" /\ pc["c1"] = "c_zero"

\* C2: with a queueing and a dequeueing caller of a packet ring of power-of-two
\* size running statement by statement, the payloads the dequeues have returned
\* are always a prefix of the payloads whose queue call published them.
C2_PacketRingFifo ==
  (variant = "skb" /\ IsPow2(skb.size)) => IsPrefix(consumed, produced)

\* a queue call is writing a descriptor while a dequeue call reads another
C2_Witness ==
  /\ variant = "skb" /\ skb.size = 4 /\ Len(consumed) >= 4
  /\ pc["p1"] = "q_vlan" /\ pc["c1"] = "d_store_tail"

\* the elements put in a ring and neither returned nor destroyed yet
Unreturned ==
  {produced[i] : i \in 1 .. Len(produced)}
    \ ({consumed[i] : i \in 1 .. Len(consumed)} \cup {freed[i] : i \in 1 .. Len(freed)})

\* the length skb_ring_queue caches for payload p
CachedLen(p) == skb_len(p) + (IF skb_vlan_tag_present(p) THEN VLAN_HLEN ELSE 0)

\* C11: with one producer-side and one consumer-side caller running statement
\* by statement, no step stores an element into a slot of the index-based ring
\* that is still valid, and no step of skb_ring_queue (power-of-two size)
\* stores a payload into a descriptor whose payload was published and not yet
\* returned; a produce that finds no free slot stores nothing.
C11_NoOverwrite ==
  [][/\ variant = "core"
          => \A i \in DOMAIN slots :
               (slots'[i] # slots[i] /\ slots'[i] # NULL) => ~valid_fn(slots, i)
     /\ (variant = "skb" /\ IsPow2(skb.size))
          => \A i \in DOMAIN skb.descs :
               skb'.descs[i].skb # skb.descs[i].skb
                 => skb.descs[i].skb \notin Unreturned
     /\ \A p \in Producers :
          (pc[p] \in {"p_test", "q_space"} /\ pc'[p] \in {"p_unlock", "q_unlock"})
            => /\ loc'[p].ret \in {-ENOSPC, -EFAULT}
               /\ slots' = slots /\ skb' = skb /\ produced' = produced]_vars

\* the producer is about to store into a slot of a ring of size 2 that has
\* gone round, while the consumer is vacating the other slot
C11_Witness ==
  /\ variant = "core" /\ ring.size = 2 /\ Len(consumed) >= 3
  /\ pc["p1"] = "p_copy" /\ pc["c1"] = "c_zero"

\* C12: in any interleaving of skb_ring_queue and skb_ring_dequeue statement by
\* statement (power-of-two size), a dequeue that has seen count >= 1 reads a
\* descriptor that holds the oldest published payload together with its final
\* cached length (skb->len, plus VLAN_HLEN when tagged), and returns that
\* payload; it never reads an unwritten or half-written descriptor.
C12_Handoff ==
  (variant = "skb" /\ IsPow2(skb.size))
    => \A c \in Consumers :
         /\ pc[c] = "d_read"
              => /\ Len(produced) > Len(consumed)
                 /\ skb.descs[loc[c].tail] =
                      [skb |-> produced[Len(consumed) + 1],
                       len |-> CachedLen(produced[Len(consumed) + 1])]
         /\ pc[c] = "d_store_tail"
              => /\ Len(consumed) >= 1
                 /\ loc[c].ret = consumed[Len(consumed)]
                 /\ loc[c].ret = produced[Len(consumed)]

\* a dequeue is reading a tagged payload's descriptor in a ring that has gone
\* round while a queue call has written only the skb field of another one
C12_Witness ==
  /\ variant = "skb" /\ skb.size = 4 /\ Len(consumed) >= 3
  /\ pc["c1"] = "d_read" /\ pc["p1"] = "q_len"
  /\ skb_vlan_tag_present(skb.descs[loc["c1"].tail].skb)

\* C13 as stated: skb_ring_purge destroys each resident payload exactly once
\* (every payload put in the ring is resident, returned or destroyed, and
\* counted once), and when its loop is over, before it drops the locks, the
\* ring holds nothing and its length is 0; back at idle it holds neither lock.
C13_AsStated ==
  (variant = "skb" /\ IsPow2(skb.size))
    => /\ Len(freed) + Len(consumed) + Cardinality(Unreturned) = Len(produced)
       /\ \A u \in Purgers :
            /\ pc[u] = "u_unlock_w"
                 => skb_ring_queue_len(skb) = 0 /\ Unreturned = {}
            /\ pc[u] = "idle" => skb.rlock # u /\ skb.wlock # u

\* the purge of a ring holding one payload is in its loop after having
\* destroyed that payload twice
C13_Witness ==
  /\ variant = "skb" /\ skb.size = 4 /\ Len(produced) = 1 /\ consumed = <<>>
  /\ pc["u1"] = "u_store_tail" /\ Len(freed) = 2 /\ freed[1] = freed[2]

NoDup(s) == \A i, j \in 1 .. Len(s) : s[i] = s[j] => i = j

\* C14 as stated: over queue, dequeue and purge callers, no payload is released
\* from the ring twice: the payloads returned by dequeues and the payloads
\* destroyed by purges are all different, and all were queued.
C14_AsStated ==
  (variant = "skb" /\ IsPow2(skb.size))
    => /\ NoDup(consumed \o freed)
       /\ \A i \in 1 .. Len(consumed \o freed) :
            \E j \in 1 .. Len(produced) : (consumed \o freed)[i] = produced[j]

\* a payload was dequeued, and a later purge destroyed the next payload more
\* than once
C14_Witness ==
  /\ variant = "skb" /\ Len(consumed) = 1 /\ Len(freed) >= 2
  /\ freed[1] = freed[2] /\ freed[1] = produced[2]

\* the steps of a call after its lock is taken, per side
ProducerBody ==
  \E p \in Producers :
    \/ P_test(p) \/ P_copy(p) \/ P_inc(p) \/ P_wrap(p) \/ P_unlock(p)
    \/ Q_load_tail(p) \/ Q_load_head(p) \/ Q_space(p) \/ Q_skb(p) \/ Q_len(p)
    \/ Q_vlan(p) \/ Q_store_head(p) \/ Q_unlock(p)

ConsumerBody ==
  \E p \in Consumers :
    \/ C_test(p) \/ C_copy(p) \/ C_zero(p) \/ C_inc(p) \/ C_wrap(p) \/ C_unlock(p)
    \/ B_loop(p) \/ B_test(p) \/ B_copy(p) \/ B_zero(p) \/ B_inc(p) \/ B_wrap(p)
    \/ B_unlock(p)
    \/ D_load_head(p) \/ D_load_tail(p) \/ D_cnt(p) \/ D_read(p)
    \/ D_store_tail(p) \/ D_unlock(p)

\* C15: a core_ring_produce / skb_ring_queue call that has taken the
\* producer-side lock completes whenever the producer side keeps being
\* scheduled, whatever the consumer side does, its holding the consumer-side
\* lock for ever included; and the same for core_ring_consume,
\* core_ring_consume_batched and skb_ring_dequeue with the sides exchanged.
C15_NoCrossBlocking ==
  /\ WF_vars(ProducerBody)
       => \A p \in Producers : (pc[p] # "idle") ~> (pc[p] = "idle")
  /\ WF_vars(ConsumerBody)
       => \A c \in Consumers : (pc[c] # "idle") ~> (pc[c] = "idle")

\* the consumer found the ring empty and still holds the consumer lock, and
\* two whole produce calls have completed since
C15_Witness ==
  /\ variant = "core" /\ pc["c1"] = "c_unlock" /\ loc["c1"].ret = NULL
  /\ consumed = <<>> /\ ring.consumer_lock = "c1"
  /\ pc["p1"] = "idle" /\ Len(produced) >= 2

\* C16 as stated: an init call with size 0 returns an error.
C16_AsStated == (last.op = "init" /\ last.arg = 0) => last.ret < 0

\* core_ring_init accepted size 0, and the ring it set up rejects a produce
C16_Witness ==
  /\ variant = "core" /\ ring.size = 0 /\ core_ring_init_returns(ring.size) = 0
  /\ last.op = "produce" /\ last.ret = -ENOSPC

\* C17: core_ring_cleanup on an index-based ring holding k elements, its user
\* having a destructor, hands each of the k elements to the destructor once,
\* oldest first, and leaves every slot invalid (the ring empty), for every k
\* in 0..size.
C17_CleanupDrains ==
  (variant = "core" /\ last.op = "cleanup" /\ last.arg = 1)
    => /\ last.ret = last.np - last.nc
       /\ freed = SubSeq(produced, last.nc + 1, last.np)
       /\ \A i \in DOMAIN slots : ~valid_fn(slots, i)
       /\ __core_ring_empty(ring, slots)
       /\ __core_ring_consume(ring, slots).ret = NULL
       /\ ring.producer = last.r.producer /\ ring.consumer = ring.producer

\* a full ring of size 4 whose indices had moved on was cleaned up
C17_Witness ==
  /\ variant = "core" /\ last.op = "cleanup" /\ last.arg = 1
  /\ last.r.size = 4 /\ last.ret = 4 /\ last.nc >= 1 /\ Len(freed) = 4

\* C18: with no other call in flight, skb_ring_peek on a packet ring of
\* power-of-two size returns 0 when the ring holds nothing and otherwise the
\* length cached for the oldest resident payload, skb->len plus VLAN_HLEN
\* exactly when that payload was tagged; head, tail and every descriptor are
\* as before the call.
C18_PeekCachedLen ==
  (variant = "skb" /\ IsPow2(skb.size) /\ last.op = "skb_peek")
    => /\ skb = last.k
       /\ last.np = last.nc => last.ret = 0
       /\ last.np > last.nc
            => /\ last.ret = CachedLen(produced[last.nc + 1])
               /\ last.ret - skb_len(produced[last.nc + 1]) =
                    (IF skb_vlan_tag_present(produced[last.nc + 1])
                     THEN VLAN_HLEN ELSE 0)

\* the peek of a ring of size 4 that has gone round: the oldest payload is
\* tagged, the one queued after it is not
C18_Witness ==
  /\ variant = "skb" /\ skb.size = 4 /\ last.op = "skb_peek"
  /\ last.nc >= 4 /\ last.np - last.nc >= 2
  /\ skb_vlan_tag_present(produced[last.nc + 1])
  /\ ~skb_vlan_tag_present(produced[last.nc + 2])
  /\ last.ret = skb_len(produced[last.nc + 1]) + VLAN_HLEN

\* the callers that take this step
Stepping(side) == {p \in side : pc'[p] # pc[p]}

\* C19: every step of a produce/queue call, successful or not, leaves the
\* consumer index (tail), the consumer lock (rlock) and the size as they are and
\* writes no slot but the one at the producer index (head); every step of a
\* consume/dequeue call leaves the producer index, the producer lock and the
\* size as they are and writes no slot but the one at the consumer index.
C19_DisjointState ==
  [][/\ Stepping(Producers) # {}
          => /\ ring'.consumer = ring.consumer
             /\ ring'.consumer_lock = ring.consumer_lock
             /\ ring'.size = ring.size /\ skb'.size = skb.size
             /\ skb'.tail = skb.tail /\ skb'.rlock = skb.rlock
             /\ \A i \in DOMAIN slots : slots'[i] # slots[i] => i = ring.producer
             /\ \A i \in DOMAIN skb.descs :
                  skb'.descs[i] # skb.descs[i] => i = skb.head
     /\ Stepping(Consumers) # {}
          => /\ ring'.producer = ring.producer
             /\ ring'.producer_lock = ring.producer_lock
             /\ ring'.size = ring.size /\ skb'.size = skb.size
             /\ skb'.head = skb.head /\ skb'.wlock = skb.wlock
             /\ \A i \in DOMAIN slots : slots'[i] # slots[i] => i = ring.consumer
             /\ \A i \in DOMAIN skb.descs :
                  skb'.descs[i] # skb.descs[i] => i = skb.tail]_vars

\* the producer is about to wrap its index while the consumer, holding its
\* lock, is about to advance its own
C19_Witness ==
  /\ variant = "core" /\ ring.size >= 2 /\ ring.producer = ring.size
  /\ pc["p1"] = "p_wrap" /\ pc["c1"] = "c_inc" /\ ring.consumer_lock = "c1"
  /\ ring.consumer = 1

\* C20: in every step of produce, consume and batched consume callers, a slot
\* of the index-based ring goes from invalid to valid only in a step of the
\* caller holding producer_lock and only at the producer index, from valid to
\* invalid only in a step of the caller holding consumer_lock and only at the
\* consumer index, and a slot that stays valid keeps its element; the same for
\* the descriptors of a packet ring of power-of-two size, a descriptor being
\* occupied when its index lies in [tail, head), with wlock and rlock.
Occupied(k, i) ==
  BitAnd(ULong(i - k.tail), ULong(k.size - 1)) < CIRC_CNT(k.head, k.tail, k.size)

C20_SlotLifecycle ==
  [][/\ variant = "core"
          => \A i \in DOMAIN slots :
               /\ (~valid_fn(slots, i) /\ valid_fn(slots', i))
                    => /\ ring.producer_lock \in Stepping(Producers)
                       /\ i = ring.producer
               /\ (valid_fn(slots, i) /\ ~valid_fn(slots', i))
                    => /\ ring.consumer_lock \in Stepping(Consumers)
                       /\ i = ring.consumer
               /\ (valid_fn(slots, i) /\ valid_fn(slots', i))
                    => slots'[i] = slots[i]
     /\ (variant = "skb" /\ IsPow2(skb.size))
          => \A i \in DOMAIN skb.descs :
               /\ (~Occupied(skb, i) /\ Occupied(skb', i))
                    => /\ skb.wlock \in Stepping(Producers)
                       /\ i = skb.head
               /\ (Occupied(skb, i) /\ ~Occupied(skb', i))
                    => /\ skb.rlock \in Stepping(Consumers)
                       /\ i = skb.tail
               /\ (Occupied(skb, i) /\ Occupied(skb', i))
                    => skb'.descs[i] = skb.descs[i]]_vars

\* a batched consume has just vacated a slot of a ring that has gone round,
\* while the producer holds its lock and is about to fill another
C20_Witness ==
  /\ variant = "core" /\ ring.size = 3 /\ Len(consumed) >= 4
  /\ pc["c1"] = "b_inc" /\ loc["c1"].i = 1
  /\ pc["p1"] = "p_copy" /\ ring.producer_lock = "p1"
  /\ ~valid_fn(slots, ring.consumer) /\ ~valid_fn(slots, ring.producer)

\* the lock a caller is about to take: a caller at idle is about to make its
\* call, the purge at u_lock_w has rlock and is about to take wlock
WaitFor(p) ==
  IF pc[p] = "u_lock_w" THEN "wlock"
  ELSE IF pc[p] = "idle" /\ p \in Producers THEN "wlock"
  ELSE IF pc[p] = "idle" THEN "rlock"
  ELSE "none"

Holder(l) == IF l = "wlock" THEN skb.wlock ELSE IF l = "rlock" THEN skb.rlock ELSE Unlocked

\* p waits: the lock it is about to take is held
Blocked(p) == WaitFor(p) # "none" /\ Holder(WaitFor(p)) # Unlocked

\* C21: among queue, dequeue and purge callers of a packet ring, only the
\* purge holds both locks, it holds wlock only while it holds rlock, no holder
\* of wlock is about to take rlock, and there is no set of waiting callers
\* each of which waits for a lock held by a member of the set.
C21_LockOrder ==
  variant = "skb"
    => /\ \A p \in Procs : (skb.rlock = p /\ skb.wlock = p) => p \in Purgers
       /\ \A p \in Purgers : skb.wlock = p => skb.rlock = p
       /\ \A p \in Procs : skb.wlock = p => WaitFor(p) # "rlock"
       /\ \A p \in Producers : skb.rlock # p
       /\ \A p \in Consumers : skb.wlock # p
       /\ ~\E W \in SUBSET Procs :
             /\ W # {}
             /\ \A p \in W : Blocked(p) /\ Holder(WaitFor(p)) \in W

\* the dequeue caller waits for rlock, which the purge holds while it waits for
\* wlock, which a queue call in the middle of writing a descriptor holds
C21_Witness ==
  /\ variant = "skb" /\ pc["u1"] = "u_lock_w" /\ skb.rlock = "u1"
  /\ skb.wlock = "p1" /\ pc["p1"] = "q_len" /\ pc["c1"] = "idle"
  /\ Blocked("c1") /\ Blocked("u1") /\ ~Blocked("p1")

\* C22: on an index-based ring of size > 0, between calls, core_ring_full
\* returns true exactly when the next produce would return -ENOSPC (the ring
\* holds size elements), core_ring_empty returns true exactly when the next
\* consume and __core_ring_peek would return NULL (the ring holds nothing);
\* each is the validity of the one slot at the producer, respectively the
\* consumer, index, and neither changes the ring.
C22_FullEmptyAgree ==
  (variant = "core" /\ ring.size > 0)
    => /\ last.op = "full"
            => /\ ring = last.r /\ slots = last.s
               /\ last.ret = 1
                    <=> __core_ring_produce(ring, slots, NextElem).ret = -ENOSPC
               /\ last.ret = 1 <=> valid_fn(slots, ring.producer)
               /\ last.ret = 1 <=> Len(produced) - Len(consumed) = ring.size
       /\ last.op = "empty"
            => /\ ring = last.r /\ slots = last.s
               /\ last.ret = 1 <=> __core_ring_consume(ring, slots).ret = NULL
               /\ last.ret = 1 <=> __core_ring_peek(ring, slots) = NULL
               /\ last.ret = 1 <=> ~valid_fn(slots, ring.consumer)
               /\ last.ret = 1 <=> Len(produced) = Len(consumed)

\* core_ring_full said no of a ring of size 3 that holds two elements, its
\* indices having wrapped
C22_Witness ==
  /\ variant = "core" /\ ring.size = 3 /\ last.op = "full" /\ last.ret = 0
  /\ Len(produced) - Len(consumed) = 2 /\ ring.producer < ring.consumer

\* C23: with every call run statement by statement, whenever no call of a side
\* is in flight the side's index is the number of its successful operations
\* modulo size: 0 after init, one further per success, back to 0 from size - 1,
\* always within [0, size). Inside a call an index-based ring's index equals
\* size only between the increment and the wrap, and is never beyond it; head
\* and tail of a packet ring (power-of-two size) are within [0, size) at every
\* step, those of skb_ring_purge included.
C23_IndicesInRange ==
  /\ (variant = "core" /\ ring.size > 0)
       => /\ ring.producer_lock = Unlocked
               => ring.producer = Len(produced) % ring.size
          /\ ring.consumer_lock = Unlocked
               => ring.consumer = Len(consumed) % ring.size
          /\ ring.producer \in 0 .. ring.size /\ ring.consumer \in 0 .. ring.size
          /\ ring.producer = ring.size => \E p \in Producers : pc[p] = "p_wrap"
          /\ ring.consumer = ring.size
               => \E c \in Consumers : pc[c] \in {"c_wrap", "b_wrap"}
  /\ (variant = "skb" /\ IsPow2(skb.size))
       => /\ skb.head \in 0 .. skb.size - 1 /\ skb.tail \in 0 .. skb.size - 1
          /\ skb.wlock = Unlocked => skb.head = Len(produced) % skb.size
          /\ skb.rlock = Unlocked => skb.tail = Len(consumed) % skb.size

\* both indices of a ring of size 3 are back at 0 after a full round, no call
\* in flight
C23_Witness ==
  /\ variant = "core" /\ ring.size = 3 /\ Len(produced) = 3 /\ Len(consumed) = 3
  /\ ring.producer = 0 /\ ring.consumer = 0
  /\ ring.producer_lock = Unlocked /\ ring.consumer_lock = Unlocked

\* C24: on every packet ring skb_ring_init accepts, a power-of-two size or not,
\* a skb_ring_queue call that returns 0 raises skb_ring_queue_len by exactly
\* one, and the accepted payloads not yet returned are what the next calls of
\* skb_ring_dequeue return, oldest first.
C24_AsStated ==
  (variant = "skb" /\ skb_ring_init_returns(skb.size) = 0)
    => /\ (last.op = "queue" /\ last.ret = 0)
            => skb_ring_queue_len(skb) = skb_ring_queue_len(last.k) + 1
       /\ DequeueSeq(skb, Len(produced) - Len(consumed)) =
            SubSeq(produced, Len(consumed) + 1, Len(produced))

\* the same on the rings whose size is a power of two
C24_Pow2Only ==
  IsPow2(skb.size) => C24_AsStated

\* a ring of size 3 has accepted two payloads, counts none and returns none
C24_Witness ==
  /\ variant = "skb" /\ skb.size = 3 /\ skb_ring_init_returns(skb.size) = 0
  /\ last.op = "queue" /\ last.ret = 0 /\ Len(produced) = 2
  /\ skb_ring_queue_len(skb) = 0
  /\ skb_ring_dequeue(skb).ret = NULL

\* C25: on a packet ring of power-of-two size, a skb_ring_peek call that runs
\* without a lock next to a queue and a dequeue caller returns 0 or the cached
\* length, VLAN adjustment included, of a payload that was the oldest resident
\* one at some moment of the call.
C25_AsStated ==
  (variant = "skb" /\ IsPow2(skb.size))
    => \A p \in Peekers :
         pc[p] = "k_ret"
           => \/ loc[p].ret = 0
              \/ \E i \in loc[p].n + 1 .. Min(Len(consumed) + 1, Len(produced)) :
                   loc[p].ret = CachedLen(produced[i])

\* the peek returns the length the producer has stored for a tagged payload
\* before adding the VLAN header, from the descriptor the producer is rewriting
C25_Witness ==
  /\ variant = "skb" /\ IsPow2(skb.size)
  /\ \E k \in Peekers, p \in Producers :
       /\ pc[k] = "k_ret" /\ pc[p] = "q_vlan"
       /\ loc[p].head = loc[k].tail
       /\ skb_vlan_tag_present(loc[p].ptr)
       /\ loc[k].ret = skb_len(loc[p].ptr)
       /\ loc[k].ret # CachedLen(loc[p].ptr)

\* C26: over CHR_EVENT_OPENED and CHR_EVENT_CLOSED events followed by the
\* vhost_user_cleanup of each queue, no vhost_net instance is passed to
\* vhost_net_cleanup more than once, and the state object is not touched after
\* free(s).
C26_AsStated ==
  variant = "vhost"
    => /\ \A v \in DOMAIN vu.cleanups : vu.cleanups[v] <= 1
       /\ ~vu.uaf

\* the instance of queue 0, cleaned by vhost_user_stop when the chardev closed,
\* is cleaned again by vhost_user_cleanup; the backend never exited
C26_Witness ==
  /\ variant = "vhost" /\ ~vu.exited /\ ~vu.running
  /\ vu.next_nc >= 1 /\ vu.peers[0] # NULL
  /\ vu.cleanups[vu.peers[0]] = 2

====
